---------------------------- MODULE Spec2Model ----------------------------
(***************************************************************************)
(* TinySolder v1.1 (software/TinySolder.ino): the soldering station's      *)
(* control loop main(), the inner loop sleep(), the pin change interrupt   *)
(* PCINT0 and the arithmetic of the setpoint mapping and low pass filter.  *)
(*                                                                         *)
(* handleTimer is a volatile uint16_t on an 8-bit AVR: every access of the *)
(* main thread is two byte transfers, and the interrupt can run between    *)
(* any two instructions.  The byte order of an access is the compiler's    *)
(* choice, so each access picks it nondeterministically.                   *)
(***************************************************************************)
EXTENDS Integers, FiniteSets, Sequences, TLC

VARIABLES
    pc,           \* program point of the main thread (main or sleep)
    acc,          \* "idle", or the byte of handleTimer the access in progress moved first
    tmp,          \* the register pair holding the value of handleTimer just loaded
    handleTimer,  \* volatile uint16_t handleTimer
    heater,       \* PORTB bit HEATER
    led,          \* PORTB bit LED
    ddrLed,       \* DDRB bit LED (TRUE: output)
    poti,         \* main's local poti
    setpoint,     \* main's local setpoint
    temp,         \* main's local temp
    smooth,       \* main's local smooth
    sleepTemp,    \* sleep's block local temp
    evt,          \* history: activity events seen by the inner loop ("none", "fresh", "due")
    iterOff,      \* history: the current inner iteration began with handleTimer >= OFF_THRESHOLD
    iterSleep,    \* history: it began with SLEEP_THRESHOLD <= handleTimer < OFF_THRESHOLD
    result,       \* ADC_read's local result
    i,            \* ADC_read's loop counter i
    adcSum,       \* history: the sum of the conversion results of the current call of ADC_read
    conversions,  \* history: the number of conversions of the current call of ADC_read
    stalled,      \* the conversion in progress never completes (ADSC stays set)
    quiet,        \* history: the last activity event has taken place
    tickEvt       \* history: an activity event fired inside handleTimer++ of line 199

\* the state of a call of ADC_read
sampler == <<result, i, adcSum, conversions, stalled>>

vars == <<pc, acc, tmp, handleTimer, heater, led, ddrLed, poti, setpoint,
          temp, smooth, sleepTemp, evt, iterOff, iterSleep, sampler, quiet,
          tickEvt>>

---------------------------------------------------------------------------
(* Program constants *)

TEMPSLEEP == 100
TEMP150 == 118
TEMP300 == 221
TEMP450 == 324

CYCLETIME == 50
TIME2SLEEP == 300
TIME2OFF == 600

\* status band of the LED decision (the literal 10 of main)
TOLERANCE == 10

\* a conversion result of the 10-bit ADC, and so the average ADC_read returns
ADCMAX == 1023

\* the number of conversions ADC_read adds up (the literal 16 of its loop)
ADCSAMPLES == 16

\* uint16_t arithmetic
WORD == 65536

\* one byte of the 8-bit machine
BYTE == 256

---------------------------------------------------------------------------
(* Bounds of the model *)

\* The source multiplies TIME2SLEEP/CYCLETIME and TIME2OFF/CYCLETIME by 1000
\* (6000 and 12000 cycles).  The model keeps the formula and scales the factor,
\* large enough for the off threshold to lie beyond the first carry into the
\* high byte of handleTimer.
TICKSCALE == 22

SLEEP_THRESHOLD == (TIME2SLEEP \div CYCLETIME) * TICKSCALE
OFF_THRESHOLD == (TIME2OFF \div CYCLETIME) * TICKSCALE

\* Averages ADC_read can return for the temperature channel in main: one
\* below and one at the lowest setpoint.
TempReadings == {TEMP150 - 1, TEMP150}

\* Averages ADC_read can return for the temperature channel in sleep: one
\* below the sleep temperature and one at it.
SleepReadings == {TEMPSLEEP - 1, TEMPSLEEP}

\* Averages ADC_read can return for the potentiometer channel: both ends.
PotiReadings == {0, ADCMAX}

\* Every average of 16 conversions of the 10-bit ADC.
RawRange == 0..ADCMAX

\* Results of a single conversion: both ends of the range, the middle, and
\* small values whose sums are not multiples of 16.
AdcReadings == {0, 1, 2, 3, 7, 100, 511, 512, ADCMAX - 1, ADCMAX}

---------------------------------------------------------------------------
(* Arithmetic *)

U16(x) == x % WORD

Bytes == {"lo", "hi"}

Other(b) == IF b = "lo" THEN "hi" ELSE "lo"

\* byte b of the word w
ByteOf(w, b) == IF b = "lo" THEN w % BYTE ELSE w \div BYTE

\* the value byte v has at position b of a word
Place(b, v) == IF b = "lo" THEN v ELSE v * BYTE

\* the word w with its byte b replaced by that of the word v
WithByte(w, b, v) ==
    IF b = "lo" THEN (w \div BYTE) * BYTE + (v % BYTE)
                ELSE (v \div BYTE) * BYTE + (w % BYTE)

\* a branch test that sends the breakpoint to the low branch
LowBranchInclusive(p) == p <= 512

\* main, line 184: if(poti < 512), the branch anchored at TEMP150
LowBranch(p) == p < 512

\* a product evaluated in 15 bits, the positive range of a 16-bit int
SetpointNarrowProduct(p) ==
    IF LowBranch(p)
    THEN U16(((p * (TEMP300 - TEMP150)) % 32768) \div 512 + TEMP150)
    ELSE U16(((U16(p - 512) * (TEMP450 - TEMP300)) % 32768) \div 512 + TEMP300)

\* a high branch that forgets to subtract the breakpoint
SetpointNoOffset(p) ==
    IF p < 512
    THEN U16((U16(p * (TEMP300 - TEMP150)) \div 512) + TEMP150)
    ELSE U16((U16(p * (TEMP450 - TEMP300)) \div 512) + TEMP300)

\* main, lines 184-185: the product is an unsigned int (16 bits on AVR),
\* shifted right by 9, then the anchor is added and the sum stored in a uint16_t
Setpoint(p) ==
    IF LowBranch(p)
    THEN U16((U16(p * (TEMP300 - TEMP150)) \div 512) + TEMP150)
    ELSE U16((U16(U16(p - 512) * (TEMP450 - TEMP300)) \div 512) + TEMP300)

\* a filter that shifts by 2 instead of 3
FilterShiftTwo(old, raw) == U16(U16(U16(old * 8) - old) + raw) \div 4

\* a filter that rounds to nearest instead of truncating
FilterRounded(old, raw) == (U16(U16(U16(old * 8) - old) + raw) + 4) \div 8

\* main, line 191: ((smooth << 3) - smooth + temp) >> 3 in unsigned 16-bit arithmetic
Filter(old, raw) == U16(U16(U16(old * 8) - old) + raw) \div 8

\* a heater test that also heats at the setpoint
HeaterOnInclusive(s, sp) == s <= sp

\* main, line 192
HeaterOn(s, sp) == s < sp

\* a status band that includes its edges
LedOnInclusive(s, sp) == (U16(s + TOLERANCE) >= sp) /\ (U16(sp + TOLERANCE) >= s)

\* main, line 196
LedOn(s, sp) == (U16(s + TOLERANCE) > sp) /\ (U16(sp + TOLERANCE) > s)

\* a test that already fires at the threshold
SleepDueAtThreshold(old) == old >= SLEEP_THRESHOLD

\* main, line 199: the test on the value of handleTimer before the increment
SleepDue(old) == old > SLEEP_THRESHOLD

\* an average that rounds to nearest instead of truncating
AverageRounded(sum) == (sum + 8) \div 16

\* ADC_read, line 123: result >> 4
Average(sum) == sum \div 16

\* an off test that lets the counter pass the threshold
NotOffInclusive(t) == t <= OFF_THRESHOLD

\* sleep, line 137
NotOff(t) == t < OFF_THRESHOLD

\* a sleep floor that still heats at TEMPSLEEP
BelowSleepTempInclusive(t) == t <= TEMPSLEEP

\* sleep, line 141
BelowSleepTemp(t) == t < TEMPSLEEP

---------------------------------------------------------------------------
(* Program points *)

SleepPcs == {"s_while", "s_off", "s_test", "s_inc", "s_inc_st", "s_settle",
             "s_temp", "s_heat", "s_toggle", "s_input", "s_delay", "s_exit"}

\* the Working control cycle: setpoint, filter, heater and LED decision
WorkingCyclePcs == {"m_poti", "m_off", "m_settle", "m_temp", "m_filter",
                    "m_heat", "m_led"}

---------------------------------------------------------------------------
(* Accesses of handleTimer by the main thread *)

\* first byte of a 16-bit load
LoadFirst(at) ==
    /\ pc = at
    /\ acc = "idle"
    /\ \E b \in Bytes :
          /\ acc' = b
          /\ tmp' = Place(b, ByteOf(handleTimer, b))

\* the value a load has assembled once its second byte is in
Loaded == tmp + Place(Other(acc), ByteOf(handleTimer, Other(acc)))

\* first byte of a 16-bit store of v
StoreFirst(at, v) ==
    /\ pc = at
    /\ acc = "idle"
    /\ \E b \in Bytes :
          /\ acc' = b
          /\ handleTimer' = WithByte(handleTimer, b, v)

\* the word in memory once the second byte of v is stored
Stored(v) == WithByte(handleTimer, Other(acc), v)

---------------------------------------------------------------------------
(* ADC_read, lines 113-124, as called for the startup sample of line 178 *)

\* lines 114-117: result = 0, channel and sleep mode set, i = 16
AdcBegin ==
    /\ pc = "start_adc"
    /\ result' = 0
    /\ i' = ADCSAMPLES
    /\ adcSum' = 0
    /\ conversions' = 0
    /\ stalled' = FALSE
    /\ pc' = "adc_conv"
    /\ UNCHANGED <<acc, tmp, handleTimer, heater, led, ddrLed, poti, setpoint,
                   temp, smooth, sleepTemp, evt, iterOff, iterSleep, quiet, tickEvt>>

\* lines 117-121: one pass of the loop, i being nonzero: a conversion that
\* completes with a result from S, result += ADC in uint16_t, i--
AdcConvert(S) ==
    /\ pc = "adc_conv"
    /\ i # 0
    /\ ~stalled
    /\ \E r \in S :
          /\ result' = U16(result + r)
          /\ adcSum' = adcSum + r
    /\ conversions' = conversions + 1
    /\ i' = (i - 1) % BYTE
    /\ UNCHANGED <<pc, stalled, acc, tmp, handleTimer, heater, led, ddrLed, poti,
                   setpoint, temp, smooth, sleepTemp, evt, iterOff, iterSleep, quiet,
                   tickEvt>>

\* a startup sample that is passed through the filter
AdcReturnFiltered ==
    /\ pc = "adc_conv"
    /\ i = 0
    /\ smooth' = Filter(smooth, Average(result))
    /\ pc' = "m_poti"
    /\ UNCHANGED <<acc, tmp, handleTimer, heater, led, ddrLed, poti, setpoint,
                   temp, sleepTemp, evt, iterOff, iterSleep, sampler, quiet, tickEvt>>

\* lines 117 and 123, and the assignment of line 178: the loop ends with
\* i = 0 and the shifted sum is returned into smooth
AdcReturn ==
    /\ pc = "adc_conv"
    /\ i = 0
    /\ smooth' = Average(result)
    /\ pc' = "m_poti"
    /\ UNCHANGED <<acc, tmp, handleTimer, heater, led, ddrLed, poti, setpoint,
                   temp, sleepTemp, evt, iterOff, iterSleep, sampler, quiet, tickEvt>>

---------------------------------------------------------------------------
(* ADC_read as called for the potentiometer, line 183, and a conversion    *)
(* that does not complete                                                  *)

\* the program points inside ADC_read's loop
ConvPcs == {"adc_conv", "poti_conv"}

\* lines 114-117, called from line 183
PotiBegin ==
    /\ pc = "m_poti"
    /\ result' = 0
    /\ i' = ADCSAMPLES
    /\ adcSum' = 0
    /\ conversions' = 0
    /\ stalled' = FALSE
    /\ pc' = "poti_conv"
    /\ UNCHANGED <<acc, tmp, handleTimer, heater, led, ddrLed, poti, setpoint,
                   temp, smooth, sleepTemp, evt, iterOff, iterSleep, quiet,
                   tickEvt>>

\* a sampler that gives a conversion up instead of waiting for it
PotiConvertTimeout(S) ==
    /\ pc = "poti_conv"
    /\ i # 0
    /\ \E r \in S :
          /\ result' = U16(result + (IF stalled THEN 0 ELSE r))
          /\ adcSum' = adcSum + (IF stalled THEN 0 ELSE r)
    /\ conversions' = conversions + 1
    /\ i' = (i - 1) % BYTE
    /\ UNCHANGED <<pc, stalled, acc, tmp, handleTimer, heater, led, ddrLed,
                   poti, setpoint, temp, smooth, sleepTemp, evt, iterOff,
                   iterSleep, quiet, tickEvt>>

\* lines 117-121: one pass of the loop; sleep_mode() and the wait for ADSC
\* end when the conversion completes, and only then
PotiConvert(S) ==
    /\ pc = "poti_conv"
    /\ i # 0
    /\ ~stalled
    /\ \E r \in S :
          /\ result' = U16(result + r)
          /\ adcSum' = adcSum + r
    /\ conversions' = conversions + 1
    /\ i' = (i - 1) % BYTE
    /\ UNCHANGED <<pc, stalled, acc, tmp, handleTimer, heater, led, ddrLed,
                   poti, setpoint, temp, smooth, sleepTemp, evt, iterOff,
                   iterSleep, quiet, tickEvt>>

\* lines 117 and 123, and lines 183-185: the average goes into poti and the
\* setpoint is computed from it
PotiReturn ==
    /\ pc = "poti_conv"
    /\ i = 0
    /\ poti' = Average(result)
    /\ setpoint' = Setpoint(Average(result))
    /\ pc' = "m_off"
    /\ UNCHANGED <<acc, tmp, handleTimer, heater, led, ddrLed, temp, smooth,
                   sleepTemp, evt, iterOff, iterSleep, sampler, quiet, tickEvt>>

\* the ADC fails: the conversion in progress never sets its completion flag
ConversionStalls ==
    /\ pc \in ConvPcs
    /\ i # 0
    /\ ~stalled
    /\ stalled' = TRUE
    /\ UNCHANGED <<pc, acc, tmp, handleTimer, heater, led, ddrLed, poti,
                   setpoint, temp, smooth, sleepTemp, evt, iterOff, iterSleep,
                   result, i, adcSum, conversions, quiet, tickEvt>>

---------------------------------------------------------------------------
(* main *)

Init ==
    /\ pc = "setup"
    /\ acc = "idle"
    /\ tmp = 0
    /\ handleTimer = 0
    /\ heater = FALSE
    /\ led = FALSE
    /\ ddrLed = FALSE
    /\ poti = 0
    /\ setpoint = 0
    /\ temp = 0
    /\ smooth = 0
    /\ sleepTemp = 0
    /\ evt = "none"
    /\ iterOff = FALSE
    /\ iterSleep = FALSE
    /\ result = 0
    /\ i = 0
    /\ adcSum = 0
    /\ conversions = 0
    /\ stalled = FALSE
    /\ quiet = FALSE
    /\ tickEvt = FALSE

\* lines 165-174: pins, pin change interrupt, sei()
Setup ==
    /\ pc = "setup"
    /\ ddrLed' = TRUE
    /\ pc' = "start_adc"
    /\ UNCHANGED <<acc, tmp, handleTimer, heater, led, poti, setpoint, temp,
                   smooth, sleepTemp, evt, iterOff, iterSleep, sampler, quiet, tickEvt>>

\* lines 177-178: smooth = ADC_read(pinADC(TEMP))
StartSample(S) ==
    /\ pc = "start_adc"
    /\ \E r \in S : smooth' = r
    /\ pc' = "m_poti"
    /\ UNCHANGED <<acc, tmp, handleTimer, heater, led, ddrLed, poti, setpoint,
                   temp, sleepTemp, evt, iterOff, iterSleep, sampler, quiet, tickEvt>>

\* lines 183-185
ReadPoti(S) ==
    /\ pc = "m_poti"
    /\ \E p \in S :
          /\ poti' = p
          /\ setpoint' = Setpoint(p)
    /\ pc' = "m_off"
    /\ UNCHANGED <<acc, tmp, handleTimer, heater, led, ddrLed, temp, smooth,
                   sleepTemp, evt, iterOff, iterSleep, sampler, quiet, tickEvt>>

\* line 188
HeaterOff ==
    /\ pc = "m_off"
    /\ heater' = FALSE
    /\ pc' = "m_settle"
    /\ UNCHANGED <<acc, tmp, handleTimer, led, ddrLed, poti, setpoint, temp,
                   smooth, sleepTemp, evt, iterOff, iterSleep, sampler, quiet, tickEvt>>

\* line 189
Settle ==
    /\ pc = "m_settle"
    /\ pc' = "m_temp"
    /\ UNCHANGED <<acc, tmp, handleTimer, heater, led, ddrLed, poti, setpoint,
                   temp, smooth, sleepTemp, evt, iterOff, iterSleep,
                   sampler, quiet, tickEvt>>

\* line 190
ReadTemp(S) ==
    /\ pc = "m_temp"
    /\ \E r \in S : temp' = r
    /\ pc' = "m_filter"
    /\ UNCHANGED <<acc, tmp, handleTimer, heater, led, ddrLed, poti, setpoint,
                   smooth, sleepTemp, evt, iterOff, iterSleep, sampler, quiet, tickEvt>>

\* line 191
FilterUpdate ==
    /\ pc = "m_filter"
    /\ smooth' = Filter(smooth, temp)
    /\ pc' = "m_heat"
    /\ UNCHANGED <<acc, tmp, handleTimer, heater, led, ddrLed, poti, setpoint,
                   temp, sleepTemp, evt, iterOff, iterSleep, sampler, quiet, tickEvt>>

\* line 192
HeaterDecision ==
    /\ pc = "m_heat"
    /\ heater' = IF HeaterOn(smooth, setpoint) THEN TRUE ELSE heater
    /\ pc' = "m_led"
    /\ UNCHANGED <<acc, tmp, handleTimer, led, ddrLed, poti, setpoint, temp,
                   smooth, sleepTemp, evt, iterOff, iterSleep, sampler, quiet, tickEvt>>

\* lines 195-196
LedDecision ==
    /\ pc = "m_led"
    /\ led' = LedOn(smooth, setpoint)
    /\ pc' = "m_tick"
    /\ UNCHANGED <<acc, tmp, handleTimer, heater, ddrLed, poti, setpoint, temp,
                   smooth, sleepTemp, evt, iterOff, iterSleep, sampler, quiet, tickEvt>>

\* line 199, handleTimer++: load, first byte
TickLoad1 ==
    /\ LoadFirst("m_tick")
    /\ UNCHANGED <<pc, handleTimer, heater, led, ddrLed, poti, setpoint, temp,
                   smooth, sleepTemp, evt, iterOff, iterSleep, sampler, quiet, tickEvt>>

\* line 199, handleTimer++: load, second byte
TickLoad2 ==
    /\ pc = "m_tick"
    /\ acc # "idle"
    /\ tmp' = Loaded
    /\ acc' = "idle"
    /\ pc' = "m_tick_st"
    /\ UNCHANGED <<handleTimer, heater, led, ddrLed, poti, setpoint, temp,
                   smooth, sleepTemp, evt, iterOff, iterSleep, sampler, quiet, tickEvt>>

\* line 199, handleTimer++: store, first byte
TickStore1 ==
    /\ StoreFirst("m_tick_st", U16(tmp + 1))
    /\ UNCHANGED <<pc, tmp, heater, led, ddrLed, poti, setpoint, temp, smooth,
                   sleepTemp, evt, iterOff, iterSleep, sampler, quiet, tickEvt>>

\* line 199, handleTimer++: store, second byte
TickStore2 ==
    /\ pc = "m_tick_st"
    /\ acc # "idle"
    /\ handleTimer' = Stored(U16(tmp + 1))
    /\ acc' = "idle"
    /\ pc' = "m_tick_cmp"
    /\ UNCHANGED <<tmp, heater, led, ddrLed, poti, setpoint, temp, smooth,
                   sleepTemp, evt, iterOff, iterSleep, sampler, quiet, tickEvt>>

\* line 199: if (old value > TIME2SLEEP/CYCLETIME*1000) sleep();
TickCompare ==
    /\ pc = "m_tick_cmp"
    /\ pc' = IF SleepDue(tmp) THEN "s_while" ELSE "m_delay"
    /\ tmp' = 0
    /\ tickEvt' = (tickEvt /\ SleepDue(tmp))
    /\ UNCHANGED <<acc, handleTimer, heater, led, ddrLed, poti, setpoint, temp,
                   smooth, sleepTemp, evt, iterOff, iterSleep, sampler, quiet>>

\* line 200
CycleDelay ==
    /\ pc = "m_delay"
    /\ pc' = "m_poti"
    /\ UNCHANGED <<acc, tmp, handleTimer, heater, led, ddrLed, poti, setpoint,
                   temp, smooth, sleepTemp, evt, iterOff, iterSleep,
                   sampler, quiet, tickEvt>>

---------------------------------------------------------------------------
(* sleep *)

\* line 135, while(handleTimer): load, first byte.  An inner iteration begins here.
WhileLoad1 ==
    /\ LoadFirst("s_while")
    /\ iterOff' = (handleTimer >= OFF_THRESHOLD)
    /\ evt' = IF evt = "fresh" THEN "due" ELSE evt
    /\ iterSleep' = (handleTimer >= SLEEP_THRESHOLD /\ handleTimer < OFF_THRESHOLD)
    /\ UNCHANGED <<pc, handleTimer, heater, led, ddrLed, poti, setpoint, temp,
                   smooth, sleepTemp, sampler, quiet, tickEvt>>

\* line 135, while(handleTimer): load, second byte, and the test
WhileLoad2 ==
    /\ pc = "s_while"
    /\ acc # "idle"
    /\ pc' = IF Loaded # 0 THEN "s_off" ELSE "s_exit"
    /\ tmp' = 0
    /\ acc' = "idle"
    /\ UNCHANGED <<handleTimer, heater, led, ddrLed, poti, setpoint, temp,
                   smooth, sleepTemp, evt, iterOff, iterSleep, sampler, quiet, tickEvt>>

\* an inner iteration that does not shut the heater off
SleepHeaterOffSkipped ==
    /\ pc = "s_off"
    /\ pc' = "s_test"
    /\ tickEvt' = FALSE
    /\ UNCHANGED <<acc, tmp, handleTimer, heater, led, ddrLed, poti, setpoint,
                   temp, smooth, sleepTemp, evt, iterOff, iterSleep,
                   sampler, quiet>>

\* line 136
SleepHeaterOff ==
    /\ pc = "s_off"
    /\ heater' = FALSE
    /\ pc' = "s_test"
    /\ tickEvt' = FALSE
    /\ UNCHANGED <<acc, tmp, handleTimer, led, ddrLed, poti, setpoint, temp,
                   smooth, sleepTemp, evt, iterOff, iterSleep, sampler, quiet>>

\* line 137, if(handleTimer < TIME2OFF/CYCLETIME*1000): load, first byte
TestLoad1 ==
    /\ LoadFirst("s_test")
    /\ UNCHANGED <<pc, handleTimer, heater, led, ddrLed, poti, setpoint, temp,
                   smooth, sleepTemp, evt, iterOff, iterSleep, sampler, quiet, tickEvt>>

\* line 137: load, second byte, and the test
TestLoad2 ==
    /\ pc = "s_test"
    /\ acc # "idle"
    /\ pc' = IF NotOff(Loaded) THEN "s_inc" ELSE "s_input"
    /\ tmp' = 0
    /\ acc' = "idle"
    /\ UNCHANGED <<handleTimer, heater, led, ddrLed, poti, setpoint, temp,
                   smooth, sleepTemp, evt, iterOff, iterSleep, sampler, quiet, tickEvt>>

\* line 138, handleTimer++: load, first byte
IncLoad1 ==
    /\ LoadFirst("s_inc")
    /\ UNCHANGED <<pc, handleTimer, heater, led, ddrLed, poti, setpoint, temp,
                   smooth, sleepTemp, evt, iterOff, iterSleep, sampler, quiet, tickEvt>>

\* line 138, handleTimer++: load, second byte
IncLoad2 ==
    /\ pc = "s_inc"
    /\ acc # "idle"
    /\ tmp' = Loaded
    /\ acc' = "idle"
    /\ pc' = "s_inc_st"
    /\ UNCHANGED <<handleTimer, heater, led, ddrLed, poti, setpoint, temp,
                   smooth, sleepTemp, evt, iterOff, iterSleep, sampler, quiet, tickEvt>>

\* line 138, handleTimer++: store, first byte
IncStore1 ==
    /\ StoreFirst("s_inc_st", U16(tmp + 1))
    /\ UNCHANGED <<pc, tmp, heater, led, ddrLed, poti, setpoint, temp, smooth,
                   sleepTemp, evt, iterOff, iterSleep, sampler, quiet, tickEvt>>

\* line 138, handleTimer++: store, second byte
IncStore2 ==
    /\ pc = "s_inc_st"
    /\ acc # "idle"
    /\ handleTimer' = Stored(U16(tmp + 1))
    /\ acc' = "idle"
    /\ tmp' = 0
    /\ pc' = "s_settle"
    /\ UNCHANGED <<heater, led, ddrLed, poti, setpoint, temp, smooth,
                   sleepTemp, evt, iterOff, iterSleep, sampler, quiet, tickEvt>>

\* line 139
SleepSettle ==
    /\ pc = "s_settle"
    /\ pc' = "s_temp"
    /\ UNCHANGED <<acc, tmp, handleTimer, heater, led, ddrLed, poti, setpoint,
                   temp, smooth, sleepTemp, evt, iterOff, iterSleep,
                   sampler, quiet, tickEvt>>

\* a Sleep iteration that feeds its sample to the filter
SleepReadTempFiltered(S) ==
    /\ pc = "s_temp"
    /\ \E r \in S :
          /\ sleepTemp' = r
          /\ smooth' = Filter(smooth, r)
    /\ pc' = "s_heat"
    /\ UNCHANGED <<acc, tmp, handleTimer, heater, led, ddrLed, poti, setpoint,
                   temp, evt, iterOff, iterSleep, sampler, quiet, tickEvt>>

\* line 140
SleepReadTemp(S) ==
    /\ pc = "s_temp"
    /\ \E r \in S : sleepTemp' = r
    /\ pc' = "s_heat"
    /\ UNCHANGED <<acc, tmp, handleTimer, heater, led, ddrLed, poti, setpoint,
                   temp, smooth, evt, iterOff, iterSleep, sampler, quiet, tickEvt>>

\* line 141
SleepHeat ==
    /\ pc = "s_heat"
    /\ heater' = IF BelowSleepTemp(sleepTemp) THEN TRUE ELSE heater
    /\ pc' = "s_toggle"
    /\ UNCHANGED <<acc, tmp, handleTimer, led, ddrLed, poti, setpoint, temp,
                   smooth, sleepTemp, evt, iterOff, iterSleep, sampler, quiet, tickEvt>>

\* line 142, and the end of the block that declares temp.  pinToggle(LED) is
\* PINB |= (1<<LED), taken as the single sbi instruction it compiles to: it
\* toggles PORTB bit LED and no other bit.
SleepToggle ==
    /\ pc = "s_toggle"
    /\ led' = ~led
    /\ sleepTemp' = 0
    /\ pc' = "s_delay"
    /\ UNCHANGED <<acc, tmp, handleTimer, heater, ddrLed, poti, setpoint, temp,
                   smooth, evt, iterOff, iterSleep, sampler, quiet, tickEvt>>

\* line 144
SleepLedInput ==
    /\ pc = "s_input"
    /\ ddrLed' = FALSE
    /\ pc' = "s_delay"
    /\ UNCHANGED <<acc, tmp, handleTimer, heater, led, poti, setpoint, temp,
                   smooth, sleepTemp, evt, iterOff, iterSleep, sampler, quiet, tickEvt>>

\* line 146
SleepDelay ==
    /\ pc = "s_delay"
    /\ pc' = "s_while"
    /\ UNCHANGED <<acc, tmp, handleTimer, heater, led, ddrLed, poti, setpoint,
                   temp, smooth, sleepTemp, evt, iterOff, iterSleep,
                   sampler, quiet, tickEvt>>

\* a return that leaves the LED pin as the loop left it
SleepExitNoRestore ==
    /\ pc = "s_exit"
    /\ evt' = "none"
    /\ iterOff' = FALSE
    /\ pc' = "m_delay"
    /\ tickEvt' = FALSE
    /\ iterSleep' = FALSE
    /\ UNCHANGED <<acc, tmp, handleTimer, heater, led, ddrLed, poti, setpoint,
                   temp, smooth, sleepTemp, sampler, quiet>>

\* line 148, and the return to line 200
SleepExit ==
    /\ pc = "s_exit"
    /\ ddrLed' = TRUE
    /\ evt' = "none"
    /\ iterOff' = FALSE
    /\ pc' = "m_delay"
    /\ tickEvt' = FALSE
    /\ iterSleep' = FALSE
    /\ UNCHANGED <<acc, tmp, handleTimer, heater, led, poti, setpoint, temp,
                   smooth, sleepTemp, sampler, quiet>>

---------------------------------------------------------------------------
(* ISR(PCINT0_vect), lines 152-154: enabled once sei() has run *)

\* main is inside handleTimer++ of line 199: a byte of the old value is loaded
\* and the new value is not yet stored completely
InsideTick == (pc = "m_tick" /\ acc # "idle") \/ pc = "m_tick_st"

\* a handler that also shuts the heater off
PinChangeHeaterOff ==
    /\ pc # "setup"
    /\ handleTimer' = 0
    /\ heater' = FALSE
    /\ evt' = IF pc \in SleepPcs THEN "fresh" ELSE evt
    /\ tickEvt' = (tickEvt \/ InsideTick)
    /\ UNCHANGED <<pc, acc, tmp, led, ddrLed, poti, setpoint, temp, smooth,
                   sleepTemp, iterOff, iterSleep, sampler, quiet>>

PinChange ==
    /\ pc # "setup"
    /\ handleTimer' = 0
    /\ evt' = IF pc \in SleepPcs THEN "fresh" ELSE evt
    /\ tickEvt' = (tickEvt \/ InsideTick)
    /\ UNCHANGED <<pc, acc, tmp, heater, led, ddrLed, poti, setpoint, temp,
                   smooth, sleepTemp, iterOff, iterSleep, sampler, quiet>>

---------------------------------------------------------------------------

Next ==
    \/ Setup
    \/ StartSample(TempReadings)
    \/ ReadPoti(PotiReadings)
    \/ HeaterOff
    \/ Settle
    \/ ReadTemp(TempReadings)
    \/ FilterUpdate
    \/ HeaterDecision
    \/ LedDecision
    \/ TickLoad1
    \/ TickLoad2
    \/ TickStore1
    \/ TickStore2
    \/ TickCompare
    \/ CycleDelay
    \/ WhileLoad1
    \/ WhileLoad2
    \/ SleepHeaterOff
    \/ TestLoad1
    \/ TestLoad2
    \/ IncLoad1
    \/ IncLoad2
    \/ IncStore1
    \/ IncStore2
    \/ SleepSettle
    \/ SleepReadTemp(SleepReadings)
    \/ SleepHeat
    \/ SleepToggle
    \/ SleepLedInput
    \/ SleepDelay
    \/ SleepExit
    \/ PinChange

Spec == Init /\ [][Next]_vars

---------------------------------------------------------------------------
(* The handle at rest: activity events stop at some point.  The main thread *)
(* always takes its next step: the CPU runs, every delay ends and every    *)
(* conversion completes.                                                   *)

\* the steps of the main thread, in main and in sleep; the potentiometer
\* stays at its lower end and the iron at the lowest setpoint
MainThread ==
    \/ Setup
    \/ StartSample(TempReadings)
    \/ ReadPoti({0})
    \/ HeaterOff
    \/ Settle
    \/ ReadTemp({TEMP150})
    \/ FilterUpdate
    \/ HeaterDecision
    \/ LedDecision
    \/ TickLoad1
    \/ TickLoad2
    \/ TickStore1
    \/ TickStore2
    \/ TickCompare
    \/ CycleDelay
    \/ WhileLoad1
    \/ WhileLoad2
    \/ SleepHeaterOff
    \/ TestLoad1
    \/ TestLoad2
    \/ IncLoad1
    \/ IncLoad2
    \/ IncStore1
    \/ IncStore2
    \/ SleepSettle
    \/ SleepReadTemp(SleepReadings)
    \/ SleepHeat
    \/ SleepToggle
    \/ SleepLedInput
    \/ SleepDelay
    \/ SleepExit

\* an activity event while the handle is still in use
PinChangeInUse ==
    /\ ~quiet
    /\ PinChange

\* the handle is put down: from here on no pin change occurs
HandleAtRest ==
    /\ ~quiet
    /\ quiet' = TRUE
    /\ UNCHANGED <<pc, acc, tmp, handleTimer, heater, led, ddrLed, poti,
                   setpoint, temp, smooth, sleepTemp, evt, iterOff, iterSleep, sampler,
                   tickEvt>>

NextQuiet ==
    \/ MainThread
    \/ PinChangeInUse
    \/ HandleAtRest

SpecQuiet == Init /\ [][NextQuiet]_vars /\ WF_vars(MainThread)

---------------------------------------------------------------------------
(* The arithmetic of one cycle over the whole range of the ADC.  Each       *)
(* specification starts main's first cycle at the statement it is about,   *)
(* in a state the program reaches there, and runs that statement.          *)

\* main's first cycle at program point at: the startup sample s is in smooth,
\* poti p and sample t have been read, nothing else has run
FirstCycle(at, s, p, sp, t) ==
    /\ pc = at
    /\ acc = "idle"
    /\ tmp = 0
    /\ handleTimer = 0
    /\ heater = FALSE
    /\ led = FALSE
    /\ ddrLed = TRUE
    /\ poti = p
    /\ setpoint = sp
    /\ temp = t
    /\ smooth = s
    /\ sleepTemp = 0
    /\ evt = "none"
    /\ iterOff = FALSE
    /\ iterSleep = FALSE
    /\ result = 0
    /\ i = 0
    /\ adcSum = 0
    /\ conversions = 0
    /\ stalled = FALSE
    /\ quiet = FALSE
    /\ tickEvt = FALSE

\* the sampler: the call of ADC_read of line 178, conversion by conversion
InitSampler == FirstCycle("start_adc", 0, 0, 0, 0)

NextSampler ==
    \/ AdcBegin
    \/ AdcConvert(AdcReadings)
    \/ AdcReturn

SpecSampler == InitSampler /\ [][NextSampler]_vars

\* the start of main: setup, the startup sample conversion by conversion,
\* and the Working cycles up to the call of sleep(), the handle being moved
\* by nobody, the potentiometer at its lower end and the iron at the lowest
\* setpoint
NextStartup ==
    \/ Setup
    \/ AdcBegin
    \/ AdcConvert({0, ADCMAX})
    \/ AdcReturn
    \/ ReadPoti({0})
    \/ HeaterOff
    \/ Settle
    \/ ReadTemp({TEMP150})
    \/ FilterUpdate
    \/ HeaterDecision
    \/ LedDecision
    \/ TickLoad1
    \/ TickLoad2
    \/ TickStore1
    \/ TickStore2
    \/ TickCompare
    \/ CycleDelay

SpecStartup == Init /\ [][NextStartup]_vars

\* main with an ADC that can fail: the startup sample and the potentiometer
\* reading conversion by conversion, the Working cycles up to the call of
\* sleep(), and the handler.  The main thread always takes its next step;
\* a conversion that has not stalled completes.
StallThread ==
    \/ Setup
    \/ AdcBegin
    \/ AdcConvert(TempReadings)
    \/ AdcReturn
    \/ PotiBegin
    \/ PotiConvert({0})
    \/ PotiReturn
    \/ HeaterOff
    \/ Settle
    \/ ReadTemp({TEMP150})
    \/ FilterUpdate
    \/ HeaterDecision
    \/ LedDecision
    \/ TickLoad1
    \/ TickLoad2
    \/ TickStore1
    \/ TickStore2
    \/ TickCompare
    \/ CycleDelay

NextStall ==
    \/ StallThread
    \/ ConversionStalls
    \/ PinChange

SpecStall == Init /\ [][NextStall]_vars /\ WF_vars(StallThread)

\* the setpoint mapping: lines 183-185 for every potentiometer reading
InitMapper == \E s \in TempReadings : FirstCycle("m_poti", s, 0, 0, 0)

NextMapper == ReadPoti(RawRange)

SpecMapper == InitMapper /\ [][NextMapper]_vars

\* the filter: lines 190-191 for every smoothed value and every sample
InitFilter ==
    \E s \in RawRange : FirstCycle("m_temp", s, 0, Setpoint(0), 0)

NextFilter ==
    \/ ReadTemp(RawRange)
    \/ FilterUpdate

SpecFilter == InitFilter /\ [][NextFilter]_vars

\* the filter under a constant input: the update of line 191, and the rest of
\* the loop up to the next update (lines 192-200 and 183-190), which writes
\* neither smooth nor, ADC_read returning the same average again, a new temp
SameSampleAgain ==
    /\ pc = "m_heat"
    /\ pc' = "m_filter"
    /\ UNCHANGED <<acc, tmp, handleTimer, heater, led, ddrLed, poti, setpoint,
                   temp, smooth, sleepTemp, evt, iterOff, iterSleep,
                   sampler, quiet, tickEvt>>

InitConverge ==
    \E s \in RawRange : \E t \in RawRange :
        FirstCycle("m_filter", s, 0, Setpoint(0), t)

NextConverge ==
    \/ FilterUpdate
    \/ SameSampleAgain

SpecConverge == InitConverge /\ [][NextConverge]_vars

\* one potentiometer reading for every setpoint the mapping produces
PotiReps == {p \in RawRange : \A q \in 0..(p - 1) : Setpoint(q) # Setpoint(p)}

\* the heater and LED decisions: lines 192-196 for every smoothed value and
\* every setpoint (a sample equal to the startup sample leaves smooth as it is)
InitDecide ==
    \E s \in RawRange : \E p \in PotiReps :
        FirstCycle("m_heat", s, p, Setpoint(p), s)

NextDecide ==
    \/ HeaterDecision
    \/ LedDecision

SpecDecide == InitDecide /\ [][NextDecide]_vars

---------------------------------------------------------------------------
(* Claims about the power state machine, checked under Spec *)

\* program points of an inner iteration after its pinLow(HEATER)
AfterSleepHeaterOff == {"s_test", "s_inc", "s_inc_st", "s_settle", "s_temp",
                        "s_heat", "s_toggle", "s_input", "s_delay"}

\* C1: an inner iteration that began with handleTimer >= OFF_THRESHOLD and has
\* seen no activity event keeps the heater off from its pinLow(HEATER) to its end.
C1_OffIterationKeepsHeaterOff ==
    (pc \in AfterSleepHeaterOff /\ iterOff /\ evt # "fresh") => ~heater

\* C1 witness: the delay of an Off iteration without activity event, LED pin released
C1_Witness ==
    /\ pc = "s_delay"
    /\ iterOff
    /\ evt = "none"
    /\ ~ddrLed
    /\ handleTimer >= OFF_THRESHOLD
    /\ ~heater

\* C2: an activity event delivered inside the inner loop makes the next
\* evaluation of while(handleTimer) false (the body is never entered by the
\* evaluation that follows an event), and the loop is left with handleTimer = 0.
C2_EventEndsInnerLoop ==
    /\ ~(pc = "s_off" /\ evt = "due")
    /\ (pc = "s_exit" => handleTimer = 0)

\* C3 as stated: the Working control cycle only runs with handleTimer < SLEEP_THRESHOLD.
C3_WorkingBelowThreshold ==
    pc \in WorkingCyclePcs => handleTimer < SLEEP_THRESHOLD

\* C3 amended: the Working control cycle only runs with handleTimer <=
\* SLEEP_THRESHOLD + 1; sleep() is called exactly by the cycle that read
\* SLEEP_THRESHOLD + 1, and a cycle that read less (SLEEP_THRESHOLD included)
\* goes on in main.
C3_SleepEnteredAboveThreshold ==
    /\ [](pc \in WorkingCyclePcs => handleTimer <= SLEEP_THRESHOLD + 1)
    /\ [][(pc = "m_tick_cmp" /\ pc' = "s_while") => tmp = SLEEP_THRESHOLD + 1]_vars
    /\ [][(pc = "m_tick_cmp" /\ pc' = "m_delay") => tmp <= SLEEP_THRESHOLD]_vars

\* C3 witness: a Working cycle starts with handleTimer = SLEEP_THRESHOLD + 1
C3_Witness ==
    /\ pc = "m_poti"
    /\ handleTimer = SLEEP_THRESHOLD + 1

\* the program points at which ADC_read samples the temperature channel
TempSamplePcs == {"start_adc", "m_temp", "s_temp"}

\* the settle delays
SettlePcs == {"m_settle", "s_settle"}

\* from the heater-off command of a cycle or Sleep iteration to its sample
OffToSamplePcs == {"m_settle", "m_temp", "s_test", "s_inc", "s_inc_st",
                   "s_settle", "s_temp"}

\* C4 as stated: every temperature sample, the startup sample included, is
\* taken with the heater off and directly after a settle delay.
C4_EverySampleSettled ==
    /\ [](pc \in TempSamplePcs => ~heater)
    /\ [][(pc' \in TempSamplePcs /\ pc' # pc) => pc \in SettlePcs]_vars

\* C4 amended: every temperature sample is taken with the heater off; the
\* samples of main's cycle and of a Sleep iteration follow a heater-off command
\* and the settle delay, with the heater off at every step in between; the
\* startup sample follows the pin setup, the heater being off since reset.
C4_SamplesWithHeaterOff ==
    /\ [](pc \in TempSamplePcs \cup OffToSamplePcs => ~heater)
    /\ [][(pc' \in {"m_temp", "s_temp"} /\ pc' # pc) => pc \in SettlePcs]_vars
    /\ [][(pc' = "start_adc" /\ pc' # pc) => (pc = "setup" /\ ~heater)]_vars

\* C4 witness: a Sleep iteration samples after an iteration that toggled the LED
C4_Witness ==
    /\ pc = "s_temp"
    /\ led
    /\ ~heater
    /\ handleTimer > SLEEP_THRESHOLD + 2

\* from the pinLow(HEATER) of a Sleep iteration to its heater decision
SleepOffToDecisionPcs == {"s_inc", "s_inc_st", "s_settle", "s_temp", "s_heat"}

\* C13: in every iteration that takes the Sleep branch the heater is off from
\* pinLow(HEATER) to the heater decision, the sample goes into the block's
\* own temp and leaves smooth and main's temp as they are, the decision
\* leaves the heater on if and only if that sample is below TEMPSLEEP,
\* whatever poti, setpoint and smooth are, and the LED toggle that ends the
\* branch does not touch the heater.
C13_SleepRegulatesOnRawSample ==
    /\ [](pc \in SleepOffToDecisionPcs => ~heater)
    /\ [][(pc = "s_temp" /\ pc' = "s_heat") => UNCHANGED <<smooth, temp>>]_vars
    /\ [][(pc = "s_heat" /\ pc' = "s_toggle")
            => (heater' <=> sleepTemp < TEMPSLEEP)]_vars
    /\ [][(pc = "s_toggle" /\ pc' = "s_delay") => heater' = heater]_vars

\* C13 witness: a Sleep iteration has switched the heater on for a sample of
\* TEMPSLEEP - 1 although smooth is not below the setpoint
C13_Witness ==
    /\ pc = "s_toggle"
    /\ handleTimer >= SLEEP_THRESHOLD
    /\ handleTimer < OFF_THRESHOLD
    /\ sleepTemp = TEMPSLEEP - 1
    /\ smooth >= setpoint
    /\ heater

\* C14: every iteration that takes the Sleep branch toggles the LED output
\* once, with the LED pin configured as an output, and every iteration that
\* takes the Off branch makes the LED pin an input and does not toggle.
C14_BlinkDrivenSteadyReleased ==
    /\ [](pc = "s_toggle" => ddrLed)
    /\ [][(pc = "s_toggle" /\ pc' = "s_delay") => (led' # led /\ ddrLed')]_vars
    /\ [][(pc = "s_input" /\ pc' = "s_delay") => (led' = led /\ ~ddrLed')]_vars

\* C15: a step of the handler sets handleTimer to 0 and changes nothing else
\* of the program: not the heater output, not the LED output or direction,
\* not smooth, setpoint or another local, and not the position of the main
\* thread or its access in progress.
C15_HandlerOnlyResetsTimer ==
    [][PinChange =>
          /\ handleTimer' = 0
          /\ UNCHANGED <<heater, led, ddrLed, smooth, setpoint, poti, temp,
                         sleepTemp, sampler, pc, acc, tmp>>]_vars

\* C15 witness: the handler has run during the delay of a Sleep iteration
\* that left the heater on
C15_Witness ==
    /\ pc = "s_delay"
    /\ evt = "fresh"
    /\ handleTimer = 0
    /\ heater
    /\ ddrLed

\* C16: an activity event that fires inside handleTimer++ of line 199 is not
\* overwritten by the increment (once the increment is complete the counter
\* is 0, or 1 if the increment counted on from the reset value), and the
\* call of sleep() that this cycle may make does not enter the body of the
\* inner loop.
C16_ResetSurvivesTick ==
    /\ (pc = "m_tick_cmp" /\ tickEvt) => handleTimer <= 1
    /\ ~(pc = "s_off" /\ tickEvt)

\* the program points at which the main thread stores handleTimer
StorePcs == {"m_tick_st", "s_inc_st"}

\* C17 as stated: handleTimer never exceeds OFF_THRESHOLD in any reachable state.
C17_TimerNeverAboveOff ==
    handleTimer <= OFF_THRESHOLD

\* C17 amended: handleTimer does not exceed OFF_THRESHOLD whenever no store
\* of it is half done; main increments only values up to SLEEP_THRESHOLD + 1
\* and the Sleep branch only values below OFF_THRESHOLD, each by one, so no
\* value above OFF_THRESHOLD is ever stored and the counter does not wrap.
\* Between the two byte stores of an increment the word in memory can exceed
\* OFF_THRESHOLD.
C17_TimerBoundedOutsideStore ==
    /\ (pc \notin StorePcs \/ acc = "idle") => handleTimer <= OFF_THRESHOLD
    /\ pc = "m_tick_st" => tmp <= SLEEP_THRESHOLD + 1
    /\ pc = "s_inc_st" => tmp < OFF_THRESHOLD
    /\ handleTimer < WORD

\* C17 witness: the Sleep branch has stored the high byte of 256 over 255
C17_Witness ==
    /\ pc = "s_inc_st"
    /\ acc = "hi"
    /\ tmp = BYTE - 1
    /\ handleTimer > OFF_THRESHOLD

\* from the heater decision of a Sleep iteration to the pinLow(HEATER) of the
\* next iteration
DecisionToOffPcs == {"s_toggle", "s_delay", "s_while", "s_off"}

\* C18 as stated: in every reachable state with handleTimer >= OFF_THRESHOLD
\* the heater is off, the delay after the last Sleep iteration included.
C18_OffMeansHeaterOff ==
    handleTimer >= OFF_THRESHOLD => ~heater

\* C18 amended: with handleTimer >= OFF_THRESHOLD the heater is off, except
\* after the last Sleep iteration: the iteration whose increment made the
\* counter OFF_THRESHOLD can switch the heater on, which then stays on with
\* handleTimer = OFF_THRESHOLD through the LED toggle, the delay and the next
\* while test, until the pinLow(HEATER) of the first Off iteration.
C18_HeaterOnAtOffOnlyAfterLastSleep ==
    (handleTimer >= OFF_THRESHOLD /\ heater) =>
        /\ handleTimer = OFF_THRESHOLD
        /\ pc \in DecisionToOffPcs
        /\ pc \in {"s_toggle", "s_delay"} => ~iterOff

\* C18 witness: the delay after the last Sleep iteration, heater on
C18_Witness ==
    /\ pc = "s_delay"
    /\ ~iterOff
    /\ handleTimer = OFF_THRESHOLD
    /\ heater
    /\ ddrLed

\* the Sleep branch of an inner iteration, lines 138-142
SleepBranchPcs == SleepOffToDecisionPcs \cup {"s_toggle"}

\* C23: whenever the Sleep branch of the inner loop executes, the iteration
\* began with SLEEP_THRESHOLD <= handleTimer < OFF_THRESHOLD, and whenever the
\* Off branch executes, the iteration began with handleTimer >= OFF_THRESHOLD.
C23_BranchFollowsCounter ==
    /\ pc \in SleepBranchPcs => iterSleep
    /\ pc = "s_input" => iterOff

\* main from the startup sample on: the Working cycle, the tick and the delay
MainLoopPcs == WorkingCyclePcs \cup {"start_adc", "m_tick", "m_tick_st",
                                     "m_tick_cmp", "m_delay"}

\* C24: at every point of main after the setup, and so whenever a Working
\* cycle sets the LED, the LED pin is an output: every return from sleep()
\* makes it an output again, whatever the inner loop did to it.
C24_WorkingLedIsDriven ==
    /\ [](pc \in MainLoopPcs => ddrLed)
    /\ [][(pc = "s_exit" /\ pc' = "m_delay") => ddrLed']_vars

\* C24 witness: main resumes after a return from sleep() (the heater is off
\* although smooth is below the setpoint) with the LED pin an output
C24_Witness ==
    /\ pc = "m_delay"
    /\ handleTimer = 0
    /\ ~heater
    /\ smooth < setpoint
    /\ ddrLed

\* C25: after its initialisation by the startup sample, smooth is written
\* only by the filter update of a Working cycle: no step of the inner loop
\* and no step of the handler changes it, so sleep() returns with the value
\* smooth had when it was called.
C25_SmoothOnlyByFilter ==
    /\ [][(smooth' # smooth) => (pc = "m_filter" \/ pc = "start_adc")]_vars
    /\ [][(pc \in SleepPcs) => (smooth' = smooth)]_vars
    /\ [][PinChange => (smooth' = smooth)]_vars

\* C25 witness: main resumes after a return from sleep() that left the LED
\* toggled, smooth still being the value of the last Working cycle
C25_Witness ==
    /\ pc = "m_delay"
    /\ ~heater
    /\ smooth = TEMP150 - 1
    /\ smooth < setpoint
    /\ led # LedOn(smooth, setpoint)

---------------------------------------------------------------------------
(* Claims about the heater and LED decisions *)

\* C5: when the heater decision of a Working cycle is done, the heater is on
\* if and only if smooth < setpoint.
C5_HeaterIffBelowSetpoint ==
    pc = "m_led" => (heater <=> smooth < setpoint)

\* C5 witness: a later cycle decides at smooth = setpoint and leaves the heater off
C5_Witness ==
    /\ pc = "m_led"
    /\ handleTimer > 1
    /\ smooth = setpoint
    /\ ~heater

\* C6: when the LED decision of a Working cycle is done, the LED is on if and
\* only if smooth + 10 > setpoint and setpoint + 10 > smooth; so (220, 221) is
\* on, (200, 221) is off and (231, 221) is off.
C6_LedIffInsideBand ==
    pc = "m_tick" =>
        /\ led <=> ((smooth + 10 > setpoint) /\ (setpoint + 10 > smooth))
        /\ (smooth = 220 /\ setpoint = 221) => led
        /\ (smooth = 200 /\ setpoint = 221) => ~led
        /\ (smooth = 231 /\ setpoint = 221) => ~led

\* C6 witness: the LED decision at exactly setpoint + 10
C6_Witness ==
    /\ pc = "m_tick"
    /\ smooth = 231
    /\ setpoint = 221
    /\ ~led

\* C19 as stated: at smooth = setpoint + TOLERANCE and at smooth = setpoint -
\* TOLERANCE the LED decision counts the temperature as in band (LED on).
C19_EdgesInBand ==
    (pc = "m_tick" /\ (smooth = setpoint + TOLERANCE \/ smooth + TOLERANCE = setpoint))
        => led

\* C19 amended: the band excludes its edges: at smooth = setpoint + TOLERANCE
\* and at smooth = setpoint - TOLERANCE the LED is off, and one step inside
\* either edge it is on.
C19_EdgesOutOfBand ==
    pc = "m_tick" =>
        /\ (smooth = setpoint + TOLERANCE \/ smooth + TOLERANCE = setpoint) => ~led
        /\ (smooth = setpoint + TOLERANCE - 1 \/ smooth + TOLERANCE - 1 = setpoint)
              => led

\* C19 witness: the LED decision at exactly setpoint - TOLERANCE
C19_Witness ==
    /\ pc = "m_tick"
    /\ smooth + TOLERANCE = setpoint
    /\ ~led

---------------------------------------------------------------------------
(* Claims about the setpoint mapping *)

\* C7: the setpoint is poti * (TEMP300 - TEMP150) / 512 + TEMP150 below 512 and
\* (poti - 512) * (TEMP450 - TEMP300) / 511 + TEMP300 from 512 on, so that
\* 0, 511, 512 and 1023 give 118, 220, 221 and 324.
C7_SetpointInterpolatesAnchors ==
    pc = "m_off" =>
        /\ setpoint = IF poti < 512
                      THEN (poti * (TEMP300 - TEMP150)) \div 512 + TEMP150
                      ELSE ((poti - 512) * (TEMP450 - TEMP300)) \div 511 + TEMP300
        /\ poti = 0 => setpoint = 118
        /\ poti = 511 => setpoint = 220
        /\ poti = 512 => setpoint = 221
        /\ poti = 1023 => setpoint = 324

\* C8: the setpoint is monotonically non-decreasing in the potentiometer
\* reading: no smaller reading maps to a larger setpoint.
C8_SetpointMonotone ==
    pc = "m_off" => \A q \in 0..poti : Setpoint(q) <= setpoint

\* C8 witness: the first reading of the high branch, one above the last
\* setpoint of the low branch
C8_Witness ==
    /\ pc = "m_off"
    /\ poti = 512
    /\ setpoint = Setpoint(511) + 1

\* C20 as stated: a potentiometer reading of exactly 512 is handled by the
\* low branch, the one anchored at TEMP150.
C20_BreakpointTakesLowBranch ==
    (pc = "m_off" /\ poti = 512) => LowBranch(poti)

\* C20 amended: a reading of exactly 512 is handled by the high branch, the
\* one anchored at TEMP300, and gives TEMP300; the low branch handles the
\* readings up to 511.
C20_BreakpointTakesHighBranch ==
    pc = "m_off" =>
        /\ LowBranch(poti) <=> poti <= 511
        /\ poti = 512 =>
              /\ ~LowBranch(poti)
              /\ setpoint = (0 * (TEMP450 - TEMP300)) \div 512 + TEMP300

\* C20 witness: the setpoint of the reading 512 is the anchor of the high branch
C20_Witness ==
    /\ pc = "m_off"
    /\ poti = 512
    /\ ~LowBranch(poti)
    /\ setpoint = TEMP300

\* C21: for every potentiometer reading the product of the setpoint
\* computation fits the 16-bit unsigned int it is evaluated in, so the
\* setpoint equals the one computed with unbounded integers.
C21_ProductFitsWord ==
    pc = "m_off" =>
        /\ poti < 512 => poti * (TEMP300 - TEMP150) < WORD
        /\ poti >= 512 => (poti - 512) * (TEMP450 - TEMP300) < WORD
        /\ setpoint = IF poti < 512
                      THEN (poti * (TEMP300 - TEMP150)) \div 512 + TEMP150
                      ELSE ((poti - 512) * (TEMP450 - TEMP300)) \div 512 + TEMP300

\* C21 witness: the largest product of the low branch, 511 * 103 = 52633
C21_Witness ==
    /\ pc = "m_off"
    /\ poti = 511
    /\ poti * (TEMP300 - TEMP150) = 52633
    /\ setpoint = 220

---------------------------------------------------------------------------
(* Claims about the start of main, checked under SpecStartup *)

\* the first Working cycle up to its filter update
BeforeFirstUpdatePcs == {"m_poti", "m_off", "m_settle", "m_temp", "m_filter"}

\* C22: smooth is initialised once, by the call of ADC_read that follows the
\* setup and is never repeated, with the average that call returns and not
\* with a filtered value; the first Working cycle (handleTimer still 0) runs
\* its filter update and its heater decision on that first sample, not on 0.
C22_SmoothStartsAtFirstSample ==
    /\ [][(pc' = "start_adc" /\ pc # "start_adc") => pc = "setup"]_vars
    /\ [][(pc' = "adc_conv" /\ pc # "adc_conv") => pc = "start_adc"]_vars
    /\ [][(pc = "adc_conv" /\ pc' = "m_poti") => smooth' = adcSum \div 16]_vars
    /\ []((handleTimer = 0 /\ pc \in BeforeFirstUpdatePcs)
            => smooth = adcSum \div 16)
    /\ []((handleTimer = 0 /\ pc = "m_heat")
            => smooth = ((adcSum \div 16) * 7 + temp) \div 8)
    /\ []((handleTimer = 0 /\ pc = "m_led")
            => (heater <=> ((adcSum \div 16) * 7 + temp) \div 8 < setpoint))

\* C22 witness: the first heater decision after a startup sample of 1023
\* leaves the heater off, where a filter started at 0 would have heated
C22_Witness ==
    /\ pc = "m_led"
    /\ handleTimer = 0
    /\ adcSum = 16 * ADCMAX
    /\ temp \div 8 < setpoint
    /\ ~heater

\* C26: for every potentiometer reading the setpoint lies between TEMP150
\* and TEMP450 inclusive, and so above the sleep temperature TEMPSLEEP.
C26_SetpointWithinAnchors ==
    pc = "m_off" =>
        /\ TEMP150 <= setpoint
        /\ setpoint <= TEMP450
        /\ TEMPSLEEP < setpoint

\* C26 witness: the largest setpoint, one below TEMP450, at the upper end
C26_Witness ==
    /\ pc = "m_off"
    /\ poti = ADCMAX
    /\ setpoint = TEMP450 - 1
    /\ \A q \in RawRange : Setpoint(q) <= setpoint

---------------------------------------------------------------------------
(* Claims about a failing ADC, checked under SpecStall *)

\* C27: a call of ADC_read returns only after 16 completed conversions, and
\* it returns unless a conversion stalls; once a conversion has stalled the
\* main thread stays where it is for ever, no later step changes the heater
\* output, the LED output or direction, or a local of main or of ADC_read;
\* and no step inside the call changes the outputs.
C27_SamplerWaitsForEver ==
    /\ [][(pc \in ConvPcs /\ pc' \notin ConvPcs) => conversions = 16]_vars
    /\ (pc \in ConvPcs) ~> (stalled \/ pc \notin ConvPcs)
    /\ [](stalled => [](stalled /\ pc \in ConvPcs))
    /\ [][stalled => UNCHANGED <<pc, heater, led, ddrLed, poti, setpoint,
                                 temp, smooth, sampler>>]_vars
    /\ [][(pc \in ConvPcs) => UNCHANGED <<heater, led, ddrLed>>]_vars

\* C27 witness: the potentiometer call hangs in its sixth conversion with
\* the heater and the LED on, and an activity event has been handled since
C27_Witness ==
    /\ pc = "poti_conv"
    /\ stalled
    /\ conversions = 5
    /\ heater
    /\ led
    /\ handleTimer = 0
    /\ smooth < setpoint

---------------------------------------------------------------------------
(* Claims about the filter *)

\* C9: one filter update yields floor((old * 7 + raw) / 8), the shift form
\* being evaluated in 16-bit unsigned arithmetic.
C9_FilterIsSevenEighths ==
    [][(pc = "m_filter" /\ pc' = "m_heat")
          => smooth' = (smooth * 7 + temp) \div 8]_vars

\* C9 witness: an update at the top of the range
C9_Witness ==
    /\ pc = "m_heat"
    /\ temp = ADCMAX
    /\ smooth = ADCMAX - 1

\* C28: with samples in 0..1023 and smooth in 0..1023, the filter update
\* leaves smooth in 0..1023 (and so does any number of updates), and its
\* intermediate values smooth << 3, (smooth << 3) - smooth and (smooth << 3)
\* - smooth + temp neither exceed the 16-bit unsigned range nor go negative.
C28_FilterStaysInRange ==
    /\ smooth \in RawRange
    /\ temp \in RawRange
    /\ pc = "m_filter" =>
          /\ smooth * 8 < WORD
          /\ smooth * 8 - smooth >= 0
          /\ smooth * 8 - smooth + temp < WORD
          /\ Filter(smooth, temp) \in RawRange

\* C28 witness: an update at the top of the range, whose intermediate value
\* is the largest possible, 8184
C28_Witness ==
    /\ pc = "m_heat"
    /\ temp = ADCMAX
    /\ smooth = ADCMAX
    /\ smooth * 7 + temp = 8184

\* between two updates under a constant input
ConvergePcs == {"m_filter", "m_heat"}

\* C10 as stated: fed the same raw value r, the smoothed value equals r after
\* a bounded number of updates; the update being deterministic, a value that
\* an update has produced and the next update leaves unchanged must then be r.
C10_SettlesOnlyAtInput ==
    (pc = "m_heat" /\ Filter(smooth, temp) = smooth) => smooth = temp

\* C10 amended: fed the same raw value r, a smoothed value above r decreases
\* with every update, never below r, and a value equal to r stays; a value
\* below r increases while it is more than 7 below r, never beyond r - 7, and
\* a value from r - 7 to r - 1 is left as it is.
C10_SettlesWithinSevenBelow ==
    pc \in ConvergePcs =>
        LET nxt == Filter(smooth, temp) IN
        /\ smooth > temp => (temp <= nxt /\ nxt < smooth)
        /\ smooth = temp => nxt = temp
        /\ (smooth < temp /\ temp - smooth > 7) => (smooth < nxt /\ nxt <= temp - 7)
        /\ (smooth < temp /\ temp - smooth <= 7) => nxt = smooth

\* C10 witness: an update has left the value 7 below the input, where the
\* next update leaves it
C10_Witness ==
    /\ pc = "m_heat"
    /\ temp = TEMP300
    /\ smooth = TEMP300 - 7
    /\ Filter(smooth, temp) = smooth

---------------------------------------------------------------------------
(* Claims about the sampler, checked under SpecSampler *)

\* C11: one call of ADC_read adds up exactly 16 conversion results and returns
\* floor(sum / 16), so a sum of 17 gives 1; the 16-bit accumulator holds the
\* true sum at every step (it does not wrap).
C11_SamplerIsTruncatedMean ==
    /\ result = adcSum
    /\ pc = "m_poti" =>
          /\ conversions = 16
          /\ smooth = adcSum \div 16
          /\ adcSum = 17 => smooth = 1
          /\ adcSum = 16 * ADCMAX => smooth = ADCMAX

\* C11 witness: a call has returned 1 for 16 conversions that sum to 17
C11_Witness ==
    /\ pc = "m_poti"
    /\ conversions = 16
    /\ adcSum = 17
    /\ smooth = 1

---------------------------------------------------------------------------
(* Claims about the handle at rest, checked under SpecQuiet *)

\* C12 as stated: once no activity event occurs any more, the system
\* eventually is in the sleep loop, eventually has handleTimer >=
\* OFF_THRESHOLD, and from the moment handleTimer >= OFF_THRESHOLD the heater
\* is off forever.
C12_QuietLeadsToOffAtOnce ==
    /\ quiet ~> (pc \in SleepPcs)
    /\ quiet ~> (handleTimer >= OFF_THRESHOLD)
    /\ []((quiet /\ handleTimer >= OFF_THRESHOLD) => []~heater)

\* C12 amended: once no activity event occurs any more, the system eventually
\* is in the sleep loop, eventually has handleTimer >= OFF_THRESHOLD, and
\* eventually the heater is off forever; with handleTimer >= OFF_THRESHOLD the
\* heater can still be on from the heater decision of the last Sleep iteration
\* to the pinLow(HEATER) of the first Off iteration, and nowhere else.
C12_QuietLeadsToOff ==
    /\ quiet ~> (pc \in SleepPcs)
    /\ quiet ~> [](handleTimer >= OFF_THRESHOLD /\ ~heater)
    /\ []((quiet /\ handleTimer >= OFF_THRESHOLD /\ heater)
            => pc \in {"s_toggle", "s_delay", "s_while", "s_off"})

\* C12 witness: the handle at rest, an Off iteration past its pinLow(HEATER)
C12_Witness ==
    /\ quiet
    /\ pc = "s_input"
    /\ iterOff
    /\ handleTimer >= OFF_THRESHOLD
    /\ ~heater

===========================================================================
